---- MODULE Spec2Model ----
(***************************************************************************)
(* go-pidioder.  Gamma / reply-channel variant (src/main.go:235-497):      *)
(*                                                                         *)
(* One actor goroutine (Blaster.Run) owns the pi-blaster pipe and the      *)
(* authoritative colour b.r, b.g, b.b.  HTTP handlers are concurrent       *)
(* goroutines that talk to it over two unbuffered channels, blaster.Input  *)
(* (SetColor) and blaster.Color (QueryColor, carrying a reply channel).    *)
(* For every accepted query the actor spawns a delivery goroutine that     *)
(* reads b.r, b.g, b.b itself and then races the send on the reply channel *)
(* against a 5 second timer.                                               *)
(*                                                                         *)
(* The earlier fade / callback variant of the same program                 *)
(* (src/main.go:1-233) shares the startup code and the Blaster's fields;   *)
(* it is modelled by the fade* actions and has specifications of its own.  *)
(***************************************************************************)
EXTENDS Integers, Sequences, FiniteSets, TLC

\* ---------------------------------------------------------------- bounds
\* number of concurrent HTTP requests (handler goroutines)
NCallers == 2

Callers == 1..NCallers

\* withRequestedColor is called at most twice by one request
\* (lighter/darker: once for the adjustment, once for the response)
QueryNos == {1, 2}

QIds == Callers \X QueryNos

\* ---------------------------------------------------------------- colours
RGB(r, g, b) == [R |-> r, G |-> g, B |-> b]

Black == RGB(0, 0, 0)

\* the r,g,b query parameters the concurrent "set" requests are tried with
Targets == {RGB(200, 200, 200)}

\* flag_R, flag_G, flag_B defaults
PinR == 17
PinG == 22
PinB == 27

Pins == {PinR, PinG, PinB}

\* arithmetic on a type wider than uint8
Wrap8Wide(x) == x

\* uint8 arithmetic of the lighter / darker closures
Wrap8(x) == x % 256

\* c.R + 10 that stops at 255
LighterClamped(c) ==
  RGB(IF c.R > 245 THEN 255 ELSE c.R + 10,
      IF c.G > 245 THEN 255 ELSE c.G + 10,
      IF c.B > 245 THEN 255 ELSE c.B + 10)

Lighter(c) == RGB(Wrap8(c.R + 10), Wrap8(c.G + 10), Wrap8(c.B + 10))

Darker(c) == RGB(Wrap8(c.R + 256 - 10), Wrap8(c.G + 256 - 10), Wrap8(c.B + 256 - 10))

\* uint8(float64(v) * (float64(num) / 0xFF)): both quotients 0x77/0xFF and
\* 0x33/0xFF round up to the nearest float64, and for every v in 0..255 the
\* float64 product truncates to the integer floor(v*num/255).
ScaleTrunc(v, num) == (v * num) \div 255

\* the same product rounded to nearest instead of truncated
ScaleRound(v, num) == (2 * v * num + 255) \div 510

correctColorRounding(c) == RGB(c.R, ScaleRound(c.G, 119), ScaleRound(c.B, 51))

correctColor(c) == RGB(c.R, ScaleTrunc(c.G, 119), ScaleTrunc(c.B, 51))

\* float64(val) / 255.0 printed with %f: six decimals, as millionths
Fraction(val) == (2000000 * val + 255) \div 510

\* ---------------------------------------------------------------- state
VARIABLES
  halted,      \* the process has exited through log.Fatal
  apc,         \* position of the actor goroutine (Blaster.Run)
  pipe,        \* b.pipe: "nil" or "open"
  err,         \* err inside mustOpenPiBlaster
  bootSteps,   \* history: system calls made by mustOpenPiBlaster, in order
  b,           \* b.r, b.g, b.b
  msg,         \* the RGB the actor last received on blaster.Input
  cur,         \* the corrected colour setAll is applying
  wrote,       \* per pin, the last fraction setPin passed to b.pipe.Write
  mainpc,      \* position of main
  pc,          \* position of each handler goroutine
  action,      \* the action of each request
  arg,         \* the RGB a handler sends on blaster.Input
  qn,          \* how many reply channels a handler has made
  closed,      \* reply channels closed by withRequestedColor
  dpc,         \* position of each delivery goroutine
  snap,        \* the RGB{b.r, b.g, b.b} a delivery goroutine has read
  offers,      \* history: send operations begun on each reply channel
  nsent,       \* history: values received from each reply channel
  atAccept,    \* history: b when the actor received the query
  sentTargets, \* history: every RGB the actor has received on blaster.Input
  last,        \* history: the last colour handed over a reply channel
  readyColors, \* history: values of b while the actor waited in its select
  sink,        \* history: the lines handed to b.pipe.Write, as <<message, pin>>
  nset,        \* history: how many messages the actor has received on Input
  writeFailed, \* history: some b.pipe.Write has returned an error
  logs,        \* what the process has logged, as <<function, message>>
  loopi,       \* fade variant: i of the incrementer / decrementer loop
  loopn,       \* fade variant: per pin, the calls of f made by the last setAll
  loopv        \* fade variant: per pin, the value of that setAll's last call of f

actorVars == <<apc, pipe, err, bootSteps, b, msg, cur, wrote>>

callerVars == <<mainpc, pc, action, arg, qn, closed>>

deliveryVars == <<dpc, snap, offers, nsent, atAccept>>

historyVars == <<sentTargets, last, readyColors>>

ioVars == <<sink, nset, writeFailed, logs>>

fadeVars == <<loopi, loopn, loopv>>

vars == <<halted, actorVars, callerVars, deliveryVars, historyVars, ioVars, fadeVars>>

NoColor == RGB(-1, -1, -1)

NoFraction == -1

NoDelivery ==
  [q |-> <<0, 0>>, action |-> "none", sent |-> NoColor, color |-> NoColor,
   accepted |-> NoColor]

Init ==
  /\ halted = FALSE
  /\ apc = "open"
  /\ pipe = "nil"
  /\ err = "nil"
  /\ bootSteps = <<>>
  /\ b = Black
  /\ msg = NoColor
  /\ cur = NoColor
  /\ wrote = [p \in Pins |-> NoFraction]
  /\ mainpc = "sendInput"
  /\ pc = [c \in Callers |-> "idle"]
  /\ action = [c \in Callers |-> "none"]
  /\ arg = [c \in Callers |-> NoColor]
  /\ qn = [c \in Callers |-> 0]
  /\ closed = [q \in QIds |-> FALSE]
  /\ dpc = [q \in QIds |-> "none"]
  /\ snap = [q \in QIds |-> NoColor]
  /\ offers = [q \in QIds |-> 0]
  /\ nsent = [q \in QIds |-> 0]
  /\ atAccept = [q \in QIds |-> NoColor]
  /\ sentTargets = {}
  /\ last = NoDelivery
  /\ readyColors = {}
  /\ sink = <<>>
  /\ nset = 0
  /\ writeFailed = FALSE
  /\ logs = {}
  /\ loopi = 0
  /\ loopn = [p \in Pins |-> 0]
  /\ loopv = [p \in Pins |-> -1]

\* ------------------------------------------------- mustOpenPiBlaster
\* os.OpenFile("/dev/pi-blaster", ...): the handle or an error
OpenFile ==
  /\ ~halted
  /\ apc = "open"
  /\ \E res \in {"ok", "ENOENT", "EACCES"} :
       /\ pipe' = IF res = "ok" THEN "open" ELSE "nil"
       /\ err' = IF res = "ok" THEN "nil" ELSE res
       /\ apc' = IF res = "ENOENT" THEN "start" ELSE "check"
  /\ bootSteps' = Append(bootSteps, "open")
  /\ UNCHANGED <<halted, b, msg, cur, wrote, callerVars, deliveryVars, historyVars,
                 ioVars, fadeVars>>

\* err = attemptPiBlasterStart(): exec pi-blaster and wait for it
attemptPiBlasterStart ==
  /\ ~halted
  /\ apc = "start"
  /\ \E started \in BOOLEAN : err' = IF started THEN "nil" ELSE "EXIT"
  /\ apc' = "check"
  /\ bootSteps' = Append(bootSteps, "start")
  /\ UNCHANGED <<halted, pipe, b, msg, cur, wrote, callerVars, deliveryVars,
                 historyVars, ioVars, fadeVars>>

\* if err != nil { log.Fatal(err) }; return file
mustOpenPiBlaster ==
  /\ ~halted
  /\ apc = "check"
  /\ IF err # "nil"
       THEN /\ halted' = TRUE
            /\ apc' = "fatal"
            /\ logs' = logs \cup {<<"mustOpenPiBlaster", err>>}
            /\ UNCHANGED readyColors
       ELSE /\ halted' = FALSE
            /\ apc' = "Ready"
            /\ readyColors' = readyColors \cup {b}
            /\ UNCHANGED logs
  /\ UNCHANGED <<pipe, err, bootSteps, b, msg, cur, wrote, callerVars,
                 deliveryVars, sentTargets, last, sink, nset, writeFailed,
                 fadeVars>>

\* ------------------------------------------------- device writer
\* setPin: format "<pin>=<fraction>\n" and hand it to b.pipe.Write; the
\* result of Write is dropped and nil is returned
setPin(pin, fval) == [wrote EXCEPT ![pin] = fval]

\* the error setChannelInteger returns for val
setChannelInteger(val) ==
  IF val > 255 THEN "over" ELSE IF val < 0 THEN "below" ELSE "nil"

\* the sink after setChannelInteger(pin, val)
setChannelIntegerWrite(pin, val) ==
  IF setChannelInteger(val) = "nil" THEN setPin(pin, Fraction(val)) ELSE wrote

\* b.pipe.Write inside setPin: a nil pipe always fails, an open one may; the
\* error is dropped by setPin, nothing is logged and nothing is retried
pipeWrite(pin, val) ==
  IF setChannelInteger(val) = "nil"
    THEN /\ sink' = Append(sink, <<nset, pin>>)
         /\ \E ok \in (IF pipe = "open" THEN BOOLEAN ELSE {FALSE}) :
              writeFailed' = (writeFailed \/ ~ok)
    ELSE UNCHANGED <<sink, writeFailed>>

\* ------------------------------------------------- Blaster.Run, setAll
\* a Run whose setAll is its own goroutine: Input is received while an
\* earlier setAll is still writing
RunInputMidSet(rgb) ==
  /\ ~halted
  /\ apc \in {"Ready", "setRed", "setGreen", "setBlue"}
  /\ msg' = rgb
  /\ cur' = correctColor(rgb)
  /\ apc' = "setRed"
  /\ sentTargets' = sentTargets \cup {rgb}
  /\ nset' = nset + 1
  /\ UNCHANGED <<halted, pipe, err, bootSteps, b, wrote, readyColors, sink,
                 writeFailed, logs, fadeVars>>

\* case c := <-b.Input: b.setAll(c), up to c = b.correctColor(c)
RunInput(rgb) ==
  /\ ~halted
  /\ apc = "Ready"
  /\ msg' = rgb
  /\ cur' = correctColor(rgb)
  /\ apc' = "setRed"
  /\ sentTargets' = sentTargets \cup {rgb}
  /\ nset' = nset + 1
  /\ UNCHANGED <<halted, pipe, err, bootSteps, b, wrote, readyColors, sink,
                 writeFailed, logs, fadeVars>>

\* case c := <-b.Color: go func(c chan RGB) {...}(c)
RunColor(q) ==
  /\ ~halted
  /\ apc = "Ready"
  /\ dpc' = [dpc EXCEPT ![q] = "readR"]
  /\ atAccept' = [atAccept EXCEPT ![q] = b]
  /\ UNCHANGED <<halted, actorVars, snap, offers, nsent, sentTargets, readyColors,
                 ioVars, fadeVars>>

\* setRed without b.r = val
setRedNoStore ==
  /\ ~halted
  /\ apc = "setRed"
  /\ wrote' = setChannelIntegerWrite(PinR, cur.R)
  /\ pipeWrite(PinR, cur.R)
  /\ UNCHANGED <<nset, logs, fadeVars>>
  /\ apc' = "setGreen"
  /\ UNCHANGED <<halted, pipe, err, bootSteps, b, msg, cur, callerVars,
                 deliveryVars, historyVars>>

\* setRed / setGreen / setBlue: write the pin, then store the channel when
\* setChannelInteger returned nil
setRed ==
  /\ ~halted
  /\ apc = "setRed"
  /\ wrote' = setChannelIntegerWrite(PinR, cur.R)
  /\ pipeWrite(PinR, cur.R)
  /\ UNCHANGED <<nset, logs, fadeVars>>
  /\ b' = IF setChannelInteger(cur.R) = "nil" THEN [b EXCEPT !.R = cur.R] ELSE b
  /\ apc' = "setGreen"
  /\ UNCHANGED <<halted, pipe, err, bootSteps, msg, cur, callerVars, deliveryVars,
                 historyVars>>

setGreen ==
  /\ ~halted
  /\ apc = "setGreen"
  /\ wrote' = setChannelIntegerWrite(PinG, cur.G)
  /\ pipeWrite(PinG, cur.G)
  /\ UNCHANGED <<nset, logs, fadeVars>>
  /\ b' = IF setChannelInteger(cur.G) = "nil" THEN [b EXCEPT !.G = cur.G] ELSE b
  /\ apc' = "setBlue"
  /\ UNCHANGED <<halted, pipe, err, bootSteps, msg, cur, callerVars, deliveryVars,
                 historyVars>>

\* setBlue without b.b = val
setBlueNoStore ==
  /\ ~halted
  /\ apc = "setBlue"
  /\ wrote' = setChannelIntegerWrite(PinB, cur.B)
  /\ pipeWrite(PinB, cur.B)
  /\ UNCHANGED <<nset, logs, fadeVars>>
  /\ apc' = "Ready"
  /\ readyColors' = readyColors \cup {b}
  /\ UNCHANGED <<halted, pipe, err, bootSteps, b, msg, cur, callerVars,
                 deliveryVars, sentTargets, last>>

\* the last statement of setAll: the actor is back in its select
setBlue ==
  /\ ~halted
  /\ apc = "setBlue"
  /\ wrote' = setChannelIntegerWrite(PinB, cur.B)
  /\ pipeWrite(PinB, cur.B)
  /\ UNCHANGED <<nset, logs, fadeVars>>
  /\ b' = IF setChannelInteger(cur.B) = "nil" THEN [b EXCEPT !.B = cur.B] ELSE b
  /\ apc' = "Ready"
  /\ readyColors' = readyColors \cup {b'}
  /\ UNCHANGED <<halted, pipe, err, bootSteps, msg, cur, callerVars, deliveryVars,
                 sentTargets, last>>

\* ------------------------------------------------- senders
\* A send on an unbuffered channel and the actor's receive are one step.  A
\* handler that has not reached its first send touches nothing shared, so a
\* request is "idle" until the actor takes its first message; requests are
\* interchangeable and are numbered in the order of that first message.
First(c) ==
  /\ mainpc = "serving"
  /\ pc[c] = "idle"
  /\ \A d \in Callers : d < c => pc[d] # "idle"

\* main: blaster.Input <- RGB{}, before http.ListenAndServe
main ==
  /\ mainpc = "sendInput"
  /\ RunInput(RGB(0, 0, 0))
  /\ mainpc' = "serving"
  /\ UNCHANGED <<pc, action, arg, qn, closed, deliveryVars, last>>

\* actionHandler, "set" and "off": blaster.Input <- RGB{r, g, b}; the handler
\* goes on to withRequestedColor for the response
actionHandlerSet(c, act, rgb) ==
  /\ First(c)
  /\ RunInput(rgb)
  /\ action' = [action EXCEPT ![c] = act]
  /\ arg' = [arg EXCEPT ![c] = rgb]
  /\ qn' = [qn EXCEPT ![c] = 1]
  /\ pc' = [pc EXCEPT ![c] = "sendColor"]
  /\ UNCHANGED <<mainpc, closed, deliveryVars, last>>

\* actionHandler "lighter"/"darker", actionHandler with any other action and
\* currentColorHandler ("color"): the first channel operation is
\* blaster.Color <- c in withRequestedColor; the handler goes on to <-c
actionHandlerQuery(c, act) ==
  /\ First(c)
  /\ RunColor(<<c, 1>>)
  /\ action' = [action EXCEPT ![c] = act]
  /\ qn' = [qn EXCEPT ![c] = 1]
  /\ pc' = [pc EXCEPT ![c] = "recv"]
  /\ UNCHANGED <<mainpc, arg, closed, last>>

\* the lighter/darker closure: blaster.Input <- RGB{c.R + 10, ...}.  The
\* closure returns, the deferred close(c) runs and the handler calls
\* withRequestedColor for the response (a second reply channel).
closureInput(c) ==
  /\ pc[c] = "sendInput"
  /\ RunInput(arg[c])
  /\ closed' = [closed EXCEPT ![<<c, 1>>] = TRUE]
  /\ qn' = [qn EXCEPT ![c] = 2]
  /\ pc' = [pc EXCEPT ![c] = "sendColor"]
  /\ UNCHANGED <<mainpc, action, arg, deliveryVars, last>>

\* withRequestedColor with close(c) before <-c instead of the deferred close
withRequestedColorCloseFirst(c) ==
  /\ pc[c] = "sendColor"
  /\ RunColor(<<c, qn[c]>>)
  /\ pc' = [pc EXCEPT ![c] = "recv"]
  /\ closed' = [closed EXCEPT ![<<c, qn[c]>>] = TRUE]
  /\ UNCHANGED <<mainpc, action, arg, qn, last>>

\* withRequestedColor for the response: c := make(chan RGB); blaster.Color <- c
withRequestedColor(c) ==
  /\ pc[c] = "sendColor"
  /\ RunColor(<<c, qn[c]>>)
  /\ pc' = [pc EXCEPT ![c] = "recv"]
  /\ UNCHANGED <<mainpc, action, arg, qn, closed, last>>

\* ------------------------------------------------- delivery goroutine
\* RGB{b.r, b.g, b.b} is evaluated by the goroutine, one field at a time,
\* while the actor goroutine runs on: unsynchronised reads
readR(q) ==
  /\ ~halted
  /\ dpc[q] = "readR"
  /\ snap' = [snap EXCEPT ![q] = RGB(b.R, -1, -1)]
  /\ dpc' = [dpc EXCEPT ![q] = "readG"]
  /\ UNCHANGED <<halted, actorVars, callerVars, offers, nsent, atAccept,
                 historyVars>>
  /\ UNCHANGED <<ioVars, fadeVars>>

readG(q) ==
  /\ ~halted
  /\ dpc[q] = "readG"
  /\ snap' = [snap EXCEPT ![q].G = b.G]
  /\ dpc' = [dpc EXCEPT ![q] = "readB"]
  /\ UNCHANGED <<halted, actorVars, callerVars, offers, nsent, atAccept,
                 historyVars>>
  /\ UNCHANGED <<ioVars, fadeVars>>

\* the last read; the goroutine enters select with the send and time.After
readB(q) ==
  /\ ~halted
  /\ dpc[q] = "readB"
  /\ snap' = [snap EXCEPT ![q].B = b.B]
  /\ dpc' = [dpc EXCEPT ![q] = "select"]
  /\ offers' = [offers EXCEPT ![q] = offers[q] + 1]
  /\ UNCHANGED <<halted, actorVars, callerVars, nsent, atAccept, historyVars>>
  /\ UNCHANGED <<ioVars, fadeVars>>

\* what the handler does with the colour it received
Receive(q) ==
  /\ last' = [q |-> q, action |-> action[q[1]], sent |-> arg[q[1]],
              color |-> snap[q], accepted |-> atAccept[q]]
  /\ nsent' = [nsent EXCEPT ![q] = nsent[q] + 1]
  /\ snap' = [snap EXCEPT ![q] = NoColor]
  /\ atAccept' = [atAccept EXCEPT ![q] = NoColor]
  /\ IF action[q[1]] \in {"lighter", "darker"} /\ q[2] = 1
       THEN /\ arg' = [arg EXCEPT ![q[1]] = IF action[q[1]] = "lighter"
                                               THEN Lighter(snap[q])
                                               ELSE Darker(snap[q])]
            /\ pc' = [pc EXCEPT ![q[1]] = "sendInput"]
            /\ UNCHANGED <<action, qn, closed>>
       ELSE /\ pc' = [pc EXCEPT ![q[1]] = "done"]
            /\ closed' = [closed EXCEPT ![q] = TRUE]
            /\ arg' = [arg EXCEPT ![q[1]] = NoColor]
            /\ qn' = [qn EXCEPT ![q[1]] = 0]
            /\ UNCHANGED action
  /\ UNCHANGED <<ioVars, fadeVars>>

\* a delivery goroutine that loops back into its select after the send
DeliverAgain(q) ==
  /\ ~halted
  /\ dpc[q] = "select"
  /\ pc[q[1]] = "recv"
  /\ qn[q[1]] = q[2]
  /\ dpc' = [dpc EXCEPT ![q] = "readB"]
  /\ Receive(q)
  /\ UNCHANGED <<halted, actorVars, mainpc, offers, sentTargets, readyColors>>

\* a delivery goroutine that ends without handing its value over
DeliverLost(q) ==
  /\ ~halted
  /\ dpc[q] = "select"
  /\ pc[q[1]] = "recv"
  /\ qn[q[1]] = q[2]
  /\ dpc' = [dpc EXCEPT ![q] = "delivered"]
  /\ UNCHANGED <<halted, actorVars, callerVars, snap, offers, nsent, atAccept,
                 historyVars, ioVars, fadeVars>>

\* case c <- RGB{...} meets the handler's <-c in withRequestedColor and the
\* goroutine ends.  The handler runs f on the colour: the lighter/darker
\* closure goes on to send on blaster.Input; the response closure writes the
\* colour, the deferred close(c) runs and the handler returns.
Deliver(q) ==
  /\ ~halted
  /\ dpc[q] = "select"
  /\ pc[q[1]] = "recv"
  /\ qn[q[1]] = q[2]
  /\ dpc' = [dpc EXCEPT ![q] = "delivered"]
  /\ Receive(q)
  /\ UNCHANGED <<halted, actorVars, mainpc, offers, sentTargets, readyColors>>

\* case <-time.After(5 * time.Second): five seconds have passed since the
\* goroutine entered its select and no receiver has taken the value (nothing
\* bounds how long a handler takes to reach its <-c); log.Fatal exits the
\* process
Timeout(q) ==
  /\ ~halted
  /\ dpc[q] = "select"
  /\ halted' = TRUE
  /\ dpc' = [dpc EXCEPT ![q] = "timedout"]
  /\ logs' = logs \cup {<<"Run", "Requested color chan blocked too long.">>}
  /\ UNCHANGED <<actorVars, callerVars, snap, offers, nsent, atAccept,
                 historyVars, sink, nset, writeFailed, fadeVars>>

Next ==
  \/ OpenFile
  \/ attemptPiBlasterStart
  \/ mustOpenPiBlaster
  \/ main
  \/ setRed
  \/ setGreen
  \/ setBlue
  \/ \E c \in Callers : \E rgb \in Targets : actionHandlerSet(c, "set", rgb)
  \/ \E c \in Callers : actionHandlerSet(c, "off", RGB(0, 0, 0))
  \/ \E c \in Callers : \E act \in {"lighter", "darker", "color"} :
       actionHandlerQuery(c, act)
  \/ \E c \in Callers : closureInput(c)
  \/ \E c \in Callers : withRequestedColor(c)
  \/ \E q \in QIds : readR(q)
  \/ \E q \in QIds : readG(q)
  \/ \E q \in QIds : readB(q)
  \/ \E q \in QIds : Deliver(q)
  \/ \E q \in QIds : Timeout(q)

Spec == Init /\ [][Next]_vars

\* ------------------------------------------------- timely handlers
\* The program when every handler reaches its <-c within the five seconds of
\* time.After, so that the timer case of the goroutine's select is never the
\* one taken.
NextFair ==
  \/ OpenFile
  \/ attemptPiBlasterStart
  \/ mustOpenPiBlaster
  \/ main
  \/ setRed
  \/ setGreen
  \/ setBlue
  \/ \E c \in Callers : \E rgb \in Targets : actionHandlerSet(c, "set", rgb)
  \/ \E c \in Callers : actionHandlerSet(c, "off", RGB(0, 0, 0))
  \/ \E c \in Callers : \E act \in {"lighter", "darker", "color"} :
       actionHandlerQuery(c, act)
  \/ \E c \in Callers : closureInput(c)
  \/ \E c \in Callers : withRequestedColor(c)
  \/ \E q \in QIds : readR(q)
  \/ \E q \in QIds : readG(q)
  \/ \E q \in QIds : readB(q)
  \/ \E q \in QIds : Deliver(q)

\* The Go scheduler runs every runnable goroutine (the actor inside setAll,
\* a delivery goroutine): weak fairness.  A goroutine blocked in a send is
\* queued on the channel and is taken by a later receive, however often the
\* actor leaves its select in between: strong fairness of the rendezvous.
Fairness ==
  /\ WF_vars(setRed)
  /\ WF_vars(setGreen)
  /\ WF_vars(setBlue)
  /\ \A c \in Callers : SF_vars(closureInput(c))
  /\ \A c \in Callers : SF_vars(withRequestedColor(c))
  /\ \A q \in QIds : WF_vars(readR(q))
  /\ \A q \in QIds : WF_vars(readG(q))
  /\ \A q \in QIds : WF_vars(readB(q))
  /\ \A q \in QIds : WF_vars(Deliver(q))

SpecFair == Init /\ [][NextFair]_vars /\ Fairness

\* ------------------------------------------------- fade variant
\* The first version of the program in main.go (lines 1-233): setAll walks
\* every channel from its current value to the target, and a colour query is
\* a func(RGB) that Run calls itself.  Startup is the same code.

\* the field of c that belongs to a pin
Chan(c, pin) == IF pin = PinR THEN c.R ELSE IF pin = PinG THEN c.G ELSE c.B

\* loops that run up to and including the target
loopConditionInclusive(curv, target, i) ==
  IF curv < target THEN i <= target ELSE i >= target

\* setter picks incrementer when cur < target, decrementer otherwise; the
\* loop goes on while i < target, respectively i > target
loopCondition(curv, target, i) ==
  IF curv < target THEN i < target ELSE i > target

\* case c := <-b.Input: b.setAll(c), up to the first setter call
fadeRunInput(rgb) ==
  /\ ~halted
  /\ apc = "Ready"
  /\ msg' = rgb
  /\ apc' = "fadeRed"
  /\ loopi' = b.R
  /\ loopn' = [p \in Pins |-> 0]
  /\ loopv' = [p \in Pins |-> -1]
  /\ sentTargets' = sentTargets \cup {rgb}
  /\ nset' = nset + 1
  /\ UNCHANGED <<halted, pipe, err, bootSteps, b, cur, wrote, readyColors, sink,
                 writeFailed, logs, deliveryVars, last>>

\* one evaluation of the loop condition of setter(cur, target, f) for a pin:
\* either f(i) and i++ / i-- in uint8, or the loop ends and setAll goes on
\* to the next setter call (after the last one the actor is back in its
\* select).  setRed, setGreen and setBlue of this version write the pin and
\* store nothing in b.
setter(pin, here, next, nextpin) ==
  /\ ~halted
  /\ apc = here
  /\ IF loopCondition(Chan(b, pin), Chan(msg, pin), loopi)
       THEN /\ wrote' = setChannelIntegerWrite(pin, loopi)
            /\ pipeWrite(pin, loopi)
            /\ loopn' = [loopn EXCEPT ![pin] = loopn[pin] + 1]
            /\ loopv' = [loopv EXCEPT ![pin] = loopi]
            /\ loopi' = IF Chan(b, pin) < Chan(msg, pin)
                          THEN Wrap8(loopi + 1)
                          ELSE Wrap8(loopi + 256 - 1)
            /\ UNCHANGED <<apc, readyColors>>
       ELSE /\ apc' = next
            /\ loopi' = IF next = "Ready" THEN 0 ELSE Chan(b, nextpin)
            /\ readyColors' = IF next = "Ready" THEN readyColors \cup {b}
                                                ELSE readyColors
            /\ UNCHANGED <<wrote, sink, writeFailed, loopn, loopv>>
  /\ UNCHANGED <<halted, pipe, err, bootSteps, b, msg, cur, callerVars,
                 deliveryVars, sentTargets, last, nset, logs>>

fadeRed == setter(PinR, "fadeRed", "fadeGreen", PinG)

fadeGreen == setter(PinG, "fadeGreen", "fadeBlue", PinB)

fadeBlue == setter(PinB, "fadeBlue", "Ready", PinB)

\* main: blaster.Input <- RGB{}
fadeMain ==
  /\ mainpc = "sendInput"
  /\ fadeRunInput(RGB(0, 0, 0))
  /\ mainpc' = "serving"
  /\ UNCHANGED <<pc, action, arg, qn, closed>>

\* actionHandler, "set" and "off": blaster.Input <- RGB{r, g, b}, and the
\* handler returns
fadeActionHandlerSet(c, act, rgb) ==
  /\ First(c)
  /\ fadeRunInput(rgb)
  /\ action' = [action EXCEPT ![c] = act]
  /\ pc' = [pc EXCEPT ![c] = "done"]
  /\ UNCHANGED <<mainpc, arg, qn, closed>>

\* actionHandler, "lighter" and "darker": blaster.Color <- func(c RGB) {...}
\* and the handler returns.  Run receives the func and calls it: the func,
\* running in the actor's goroutine, sends RGB{c.R + 10, ...} on
\* blaster.Input.  Run is the only receiver of Input and it is inside the
\* call, so no step takes that send.
fadeActionHandlerAdjust(c, act) ==
  /\ First(c)
  /\ ~halted
  /\ apc = "Ready"
  /\ apc' = "callback"
  /\ action' = [action EXCEPT ![c] = act]
  /\ arg' = [arg EXCEPT ![c] = IF act = "lighter" THEN Lighter(b) ELSE Darker(b)]
  /\ pc' = [pc EXCEPT ![c] = "done"]
  /\ UNCHANGED <<halted, pipe, err, bootSteps, b, msg, cur, wrote, mainpc, qn,
                 closed, deliveryVars, historyVars, ioVars, fadeVars>>

NextCallback ==
  \/ OpenFile
  \/ attemptPiBlasterStart
  \/ mustOpenPiBlaster
  \/ fadeMain
  \/ fadeRed
  \/ fadeGreen
  \/ fadeBlue
  \/ \E c \in Callers : \E rgb \in Targets : fadeActionHandlerSet(c, "set", rgb)
  \/ \E c \in Callers : fadeActionHandlerSet(c, "off", RGB(0, 0, 0))
  \/ \E c \in Callers : \E act \in {"lighter", "darker"} :
       fadeActionHandlerAdjust(c, act)

SpecCallback == Init /\ [][NextCallback]_vars

\* the values of one uint8 colour channel
Levels == 0..255

\* ------------------------------------------------- setAll of the fade variant alone
\* the ends of the uint8 range and a value between them
FadeEnds == {0, 1, 128, 254, 255}

FadeGreys == {RGB(t, t, t) : t \in FadeEnds}

\* every level on some channel, in triples that make setAll walk both ways
FadeColors == FadeGreys \cup {RGB(v, 255 - v, Wrap8(v + 128)) : v \in Levels}

\* the actor in its select over an open pipe, holding any of FadeColors
InitFade ==
  \E c \in FadeColors :
    /\ halted = FALSE
    /\ apc = "Ready"
    /\ pipe = "open"
    /\ err = "nil"
    /\ bootSteps = <<"open">>
    /\ b = c
    /\ msg = NoColor
    /\ cur = NoColor
    /\ wrote = [p \in Pins |-> NoFraction]
    /\ mainpc = "sendInput"
    /\ pc = [d \in Callers |-> "idle"]
    /\ action = [d \in Callers |-> "none"]
    /\ arg = [d \in Callers |-> NoColor]
    /\ qn = [d \in Callers |-> 0]
    /\ closed = [q \in QIds |-> FALSE]
    /\ dpc = [q \in QIds |-> "none"]
    /\ snap = [q \in QIds |-> NoColor]
    /\ offers = [q \in QIds |-> 0]
    /\ nsent = [q \in QIds |-> 0]
    /\ atAccept = [q \in QIds |-> NoColor]
    /\ sentTargets = {}
    /\ last = NoDelivery
    /\ readyColors = {c}
    /\ sink = <<>>
    /\ nset = 0
    /\ writeFailed = FALSE
    /\ logs = {}
    /\ loopi = 0
    /\ loopn = [p \in Pins |-> 0]
    /\ loopv = [p \in Pins |-> -1]

\* one message on Input: any of FadeColors against a grey of FadeGreys
fadeInput ==
  /\ mainpc = "sendInput"
  /\ apc = "Ready"
  /\ \E rgb \in FadeColors :
       /\ b \in FadeGreys \/ rgb \in FadeGreys
       /\ fadeRunInput(rgb)
  /\ mainpc' = "serving"
  /\ UNCHANGED <<pc, action, arg, qn, closed>>

NextFade ==
  \/ fadeInput
  \/ fadeRed
  \/ fadeGreen
  \/ fadeBlue

SpecFade == InitFade /\ [][NextFade]_vars

\* ------------------------------------------------- the lighter/darker closure
\* the colours the closure of "lighter" and "darker" is applied to: every
\* grey level, and every level beside two different ones
AdjustColors ==
  {RGB(v, v, v) : v \in Levels} \cup {RGB(v, 255 - v, Wrap8(v + 128)) : v \in Levels}

\* One "lighter" or "darker" request whose query the actor has accepted and
\* whose delivery goroutine holds the colour c in its select: the closure's
\* argument ranges over AdjustColors.
InitAdjust ==
  \E c \in AdjustColors : \E act \in {"lighter", "darker"} :
    /\ halted = FALSE
    /\ apc = "Ready"
    /\ pipe = "open"
    /\ err = "nil"
    /\ bootSteps = <<"open">>
    /\ b = c
    /\ msg = Black
    /\ cur = Black
    /\ wrote = [p \in Pins |-> Fraction(IF p = PinR THEN c.R ELSE IF p = PinG THEN c.G ELSE c.B)]
    /\ mainpc = "serving"
    /\ pc = [d \in Callers |-> IF d = 1 THEN "recv" ELSE "idle"]
    /\ action = [d \in Callers |-> IF d = 1 THEN act ELSE "none"]
    /\ arg = [d \in Callers |-> NoColor]
    /\ qn = [d \in Callers |-> IF d = 1 THEN 1 ELSE 0]
    /\ closed = [q \in QIds |-> FALSE]
    /\ dpc = [q \in QIds |-> IF q = <<1, 1>> THEN "select" ELSE "none"]
    /\ snap = [q \in QIds |-> IF q = <<1, 1>> THEN c ELSE NoColor]
    /\ offers = [q \in QIds |-> IF q = <<1, 1>> THEN 1 ELSE 0]
    /\ nsent = [q \in QIds |-> 0]
    /\ atAccept = [q \in QIds |-> IF q = <<1, 1>> THEN c ELSE NoColor]
    /\ sentTargets = {Black}
    /\ last = NoDelivery
    /\ readyColors = {Black, c}
    /\ sink = <<<<1, PinR>>, <<1, PinG>>, <<1, PinB>>>>
    /\ nset = 1
    /\ writeFailed = FALSE
    /\ logs = {}
    /\ loopi = 0
    /\ loopn = [p \in Pins |-> 0]
    /\ loopv = [p \in Pins |-> -1]

\* the request runs to its end: the closure, its SetColor, the response query
NextAdjust ==
  \/ \E q \in QIds : Deliver(q)
  \/ closureInput(1)
  \/ setRed
  \/ setGreen
  \/ setBlue
  \/ withRequestedColor(1)
  \/ \E q \in QIds : readR(q)
  \/ \E q \in QIds : readG(q)
  \/ \E q \in QIds : readB(q)

SpecAdjust == InitAdjust /\ [][NextAdjust]_vars

\* ------------------------------------------------- gamma correction alone
\* startup, main's first message and one "set" request, up to the end of
\* setAll: every grey level, and every green and blue beside red 200
NextGamma ==
  \/ OpenFile
  \/ attemptPiBlasterStart
  \/ mustOpenPiBlaster
  \/ main
  \/ /\ First(1) /\ apc = "Ready"
     /\ \E v \in Levels : actionHandlerSet(1, "set", RGB(v, v, v))
  \/ /\ First(1) /\ apc = "Ready"
     /\ \E g \in Levels : \E bl \in Levels :
          actionHandlerSet(1, "set", RGB(200, g, bl))
  \/ setRed
  \/ setGreen
  \/ setBlue

SpecGamma == Init /\ [][NextGamma]_vars

\* ================================================================ claims
Delivered == last.q # <<0, 0>>

\* C1: every colour delivered on a reply channel is a value the authoritative
\* colour had while the actor was between two messages; it is never a mix of
\* the channels from before and after a SetColor that was being applied.
C1_SelfConsistentSnapshot == Delivered => last.color \in readyColors

\* C2: whenever the actor is back in Ready, the authoritative colour is the
\* initial {0,0,0} or correctColor of one of the targets sent to it, never a
\* channel-wise mix of two targets.
C2_SerializationInvariant ==
  apc = "Ready" =>
    b \in {Black} \cup {correctColor(t) : t \in sentTargets}

\* two requests with distinct targets (set 200,200,200 and off) have both been
\* processed and the actor is Ready with the transform of one of them
C2_Witness ==
  /\ apc = "Ready"
  /\ {Black, RGB(200, 200, 200)} \subseteq sentTargets
  /\ \A c \in Callers : pc[c] # "idle"
  /\ b = RGB(200, 93, 40)

\* C3: a query whose reply is not received does not keep later messages from
\* being processed: a handler that is waiting to send a SetColor or a
\* QueryColor always has a running actor to take it.
C3_LaterMessagesAccepted ==
  \A c \in Callers : pc[c] \in {"sendInput", "sendColor"} => ~halted

\* C4: when the delivery of a reply times out, nothing but the log changes:
\* the process keeps running, the actor stays where it is and the
\* authoritative colour is unchanged.
C4_TimeoutOnlyLogs ==
  [][(\E q \in QIds : dpc[q] = "select" /\ dpc'[q] = "timedout")
       => (halted' = halted /\ apc' = apc /\ b' = b)]_vars

\* C5: with a single request and no other traffic, the colour received after
\* "set"/"off" is correctColor of the colour that was sent; after
\* SetColor({0,0,0}) it is {0,0,0}.
C5_SetThenQuery ==
  (/\ Delivered
   /\ last.action \in {"set", "off"}
   /\ \A d \in Callers : d # last.q[1] => pc[d] = "idle")
    => /\ last.color = correctColor(last.sent)
       /\ last.sent = Black => last.color = Black

\* the only request was set 200,200,200 and its response is 200,93,40
C5_Witness ==
  /\ Delivered
  /\ last.action = "set"
  /\ last.color = RGB(200, 93, 40)
  /\ \A d \in Callers : d # last.q[1] => pc[d] = "idle"

\* C6: the colour delivered for a query is the authoritative colour as the
\* actor had it when it received the query: it shows the SetColors processed
\* before the query and none received after it.
C6_QueryReflectsEarlierSetsOnly == Delivered => last.color = last.accepted

\* C7: after the actor has processed SetColor({r,g,b}) the authoritative
\* colour is {r, floor(g*119/255), floor(b*51/255)} and these are the values
\* written for the three pins; {200,200,200} is stored as {200,93,40}.
C7_GammaCorrectedSet ==
  (apc = "Ready" /\ msg # NoColor) =>
    /\ b = RGB(msg.R, (msg.G * 119) \div 255, (msg.B * 51) \div 255)
    /\ wrote[PinR] = Fraction(msg.R)
    /\ wrote[PinG] = Fraction((msg.G * 119) \div 255)
    /\ wrote[PinB] = Fraction((msg.B * 51) \div 255)
    /\ msg = RGB(200, 200, 200) => b = RGB(200, 93, 40)

\* set 200,200,200 has been processed: 200,93,40 is stored and 0.784314,
\* 0.364706 and 0.156863 were written
C7_Witness ==
  /\ apc = "Ready"
  /\ msg = RGB(200, 200, 200)
  /\ b = RGB(200, 93, 40)
  /\ wrote = [p \in Pins |-> IF p = PinR THEN 784314
                              ELSE IF p = PinG THEN 364706 ELSE 156863]

BootDone == apc \notin {"open", "start", "check"}

\* C8: when the first open fails because the device does not exist, startup
\* is open, one start of the daemon, one more open, then success or fatal.
C8_OpenStartOpen ==
  (BootDone /\ Len(bootSteps) >= 2 /\ bootSteps[2] = "start")
    => bootSteps = <<"open", "start", "open">>

\* C9: whenever the actor's loop is ready to accept a message, b.pipe is an
\* opened sink: startup yields an open handle or halts the process.
C9_NeverServesPartially == apc = "Ready" => pipe = "open"

\* C10: at most one colour is ever sent on a query's reply channel: at most
\* one send is begun on it and no more values are received than were sent.
C10_AtMostOneReply ==
  \A q \in QIds : offers[q] <= 1 /\ nsent[q] <= offers[q]

\* one reply was delivered while another query's delivery timed out
C10_Witness ==
  \E q, r \in QIds :
    /\ offers[q] = 1 /\ nsent[q] = 1 /\ dpc[q] = "delivered"
    /\ offers[r] = 1 /\ nsent[r] = 0 /\ dpc[r] = "timedout"

\* C11: with timely handlers, completing device writes and fair scheduling,
\* every handler waiting to send its query has it accepted, and every accepted
\* query is answered: its goroutine hands over one colour and ends, and no
\* query is ever answered twice.
C11_EveryQueryAnswered ==
  /\ \A c \in Callers : (pc[c] = "sendColor") ~> (pc[c] = "recv")
  /\ \A q \in QIds : (dpc[q] = "readR") ~> (dpc[q] = "delivered" /\ nsent[q] = 1)
  /\ [](\A q \in QIds : nsent[q] <= 1)

\* every request has finished and the first query of each was answered
C11_Witness ==
  \A c \in Callers : pc[c] = "done" /\ dpc[<<c, 1>>] = "delivered" /\ nsent[<<c, 1>>] = 1

\* x + 10 and x - 10 in uint8
Up10(x) == IF x + 10 > 255 THEN x + 10 - 256 ELSE x + 10

Down10(x) == IF x < 10 THEN x + 256 - 10 ELSE x - 10

\* C12: the closure of "lighter" sends SetColor with every channel of the
\* delivered colour plus 10 modulo 256, the closure of "darker" with every
\* channel minus 10 modulo 256, nothing is clamped; "lighter" on
\* {250,250,250} sends {4,4,4}.
C12_AdjustWraps ==
  \A c \in Callers :
    (last.q = <<c, 1>> /\ last.action \in {"lighter", "darker"}) =>
      LET x == last.color
          want == IF last.action = "lighter"
                    THEN RGB(Up10(x.R), Up10(x.G), Up10(x.B))
                    ELSE RGB(Down10(x.R), Down10(x.G), Down10(x.B))
      IN /\ pc[c] = "sendInput" => arg[c] = want
         /\ (pc[c] = "sendColor" /\ apc = "setRed") => msg = want
         /\ (pc[c] = "sendInput" /\ last.action = "lighter" /\ x = RGB(250, 250, 250))
              => arg[c] = RGB(4, 4, 4)
         /\ (pc[c] = "sendInput" /\ last.action = "darker" /\ x = RGB(4, 4, 4))
              => arg[c] = RGB(250, 250, 250)

\* the actor has received {4,4,4} from "lighter" on {250,250,250}
C12_Witness ==
  /\ last.q = <<1, 1>>
  /\ last.action = "lighter"
  /\ last.color = RGB(250, 250, 250)
  /\ apc = "setRed"
  /\ msg = RGB(4, 4, 4)

\* setAll's order of writes
PinOrder == <<PinR, PinG, PinB>>

\* C13: the lines handed to the device are, in order, red, green, blue of the
\* first SetColor, then red, green, blue of the second, and so on: the writes
\* of one SetColor are one block, and there is no line that the actor's
\* setAll did not write.
C13_WritesInBlocks ==
  /\ \A k \in 1..Len(sink) :
       sink[k] = <<((k - 1) \div 3) + 1, PinOrder[((k - 1) % 3) + 1]>>
  /\ Len(sink) = 3 * nset - (IF apc = "setRed" THEN 3
                               ELSE IF apc = "setGreen" THEN 2
                               ELSE IF apc = "setBlue" THEN 1 ELSE 0)

\* a third SetColor is between its red and its green write while requests wait
C13_Witness ==
  /\ nset = 3
  /\ apc = "setGreen"
  /\ Len(sink) = 7
  /\ \E c \in Callers : pc[c] = "sendColor"

\* C14: in the fade variant, when the actor is back in its select after a
\* SetColor, the stored colour is the target, and on every channel the last
\* value setAll wrote is the target (a channel that was already at the target
\* needs no write).
C14_FadeEndsAtTarget ==
  (apc = "Ready" /\ nset >= 1) =>
    /\ b = msg
    /\ \A p \in Pins : loopn[p] = 0 \/ loopv[p] = Chan(msg, p)

\* C15: in the callback variant the actor that has accepted a colour query
\* is never stuck inside the callback: while it is there, the program can
\* take a step that leads on.
C15_ActorNeverStuck == apc = "callback" => ENABLED NextCallback

\* the loop of a pin is running
LoopRunning(p) ==
  \/ p = PinR /\ apc = "fadeRed"
  \/ p = PinG /\ apc = "fadeGreen"
  \/ p = PinB /\ apc = "fadeBlue"

\* the loop of a pin has ended
LoopOver(p) ==
  \/ apc = "Ready"
  \/ p = PinR /\ apc \in {"fadeGreen", "fadeBlue"}
  \/ p = PinG /\ apc = "fadeBlue"

\* C16: for every channel of a setAll of the fade variant, with cur the
\* stored value and target the requested one: the n-th value handed to the
\* writer is cur moved n-1 steps of 1 toward target, there are never more
\* than |target - cur| calls, there are exactly |target - cur| when the loop
\* has ended, and none when cur = target.  The values stay between cur and
\* target, so the uint8 counter does not wrap, and the bounded count is the
\* loop's termination; the counter i itself is cur moved by the number of
\* calls.
C16_StepsTowardTarget ==
  nset >= 1 =>
    \A p \in Pins :
      LET curv == Chan(b, p)
          target == Chan(msg, p)
          dist == IF curv < target THEN target - curv ELSE curv - target
          dir == IF curv < target THEN 1 ELSE -1
      IN /\ loopn[p] <= dist
         /\ loopn[p] = 0 => loopv[p] = -1
         /\ loopn[p] >= 1 => loopv[p] = curv + dir * (loopn[p] - 1)
         /\ LoopOver(p) => loopn[p] = dist
         /\ LoopRunning(p) => loopi = curv + dir * loopn[p]

\* setAll from {255,0,127} to {0,0,0} has ended: 255 steps down on red from
\* 255 to 1, none on green, 127 on blue
C16_Witness ==
  /\ apc = "Ready"
  /\ b = RGB(255, 0, 127)
  /\ msg = Black
  /\ loopn = [p \in Pins |-> IF p = PinR THEN 255 ELSE IF p = PinG THEN 0 ELSE 127]
  /\ loopv[PinR] = 1

\* values no uint8 holds
OutOfRange == {-10, -1, 256, 265}

WritePath == {"setPin", "setChannelInteger", "setRed", "setGreen", "setBlue", "setAll"}

\* C18: when a write to the device has failed, the failure is in the log:
\* some function on the path of the write has logged the error.
C18_WriteFailureLogged ==
  writeFailed => \E l \in logs : l[1] \in WritePath

\* every request is a finished "lighter" and the actor is in its select
AllLighterDone ==
  /\ apc = "Ready"
  /\ \A c \in Callers : pc[c] = "done" /\ action[c] = "lighter"

C20_CloseAfterReceive ==
  /\ \A q \in QIds : closed[q] => (dpc[q] = "delivered" /\ nsent[q] = 1)
  /\ \A q \in QIds : nsent[q] >= 1 => dpc[q] = "delivered"
  /\ \A q \in QIds : (pc[q[1]] = "recv" /\ qn[q[1]] = q[2]) => ~closed[q]

\* a "lighter" request has finished: both of its reply channels are closed
C20_Witness ==
  \E c \in Callers :
    /\ pc[c] = "done"
    /\ action[c] = "lighter"
    /\ closed[<<c, 1>>]
    /\ closed[<<c, 2>>]

====
